---- MODULE Spec2Model ----
(***************************************************************************)
(* AthenaQueryResultPager (src/src/index.ts): one pager instance, its      *)
(* shared AthenaQueryResultParser, the GetQueryResults calls it sends and  *)
(* the operations callers run on it (fetchPage, fetchPageWith, the three   *)
(* async generators, reset, hasNextPage).  Every operation suspends only   *)
(* at `await this.client.send(...)` or at a `yield`; an action is the code *)
(* that runs between two such points.                                      *)
(***************************************************************************)
EXTENDS Integers, Sequences, FiniteSets, TLC

VARIABLES
    ctorOptions,  \* the `options` argument the constructor was called with
    options,      \* this.options
    parser,       \* this.parser
    lastReset,    \* history: "never", or whether the parser the latest reset()
                  \* discarded had parsed anything ("used") or not ("unused")
    epochParses,  \* history: 1 once the current parser has parsed, else 0
    calls,        \* the commands sent through this.client, with their outcomes
    ops,          \* the operations callers have in progress on the pager
    lastHasNext   \* the latest hasNextPage call: <<argument, result>>

vars == <<ctorOptions, options, parser, lastReset, epochParses, calls, ops, lastHasNext>>

(***************************************************************************)
(* Bounds of the model.                                                    *)
(***************************************************************************)
MaxRequests == 3
MaxRows == 2

\* One operation runs on the pager at a time; a finished one is released.
Ops == {1}

(***************************************************************************)
(* Values.  A string is a sequence of character codes, so "" is << >>.     *)
(* A value of type `string | undefined` is Undefined or Str(s).            *)
(***************************************************************************)
Undefined == [defined |-> FALSE, str |-> << >>]

Str(s) == [defined |-> TRUE, str |-> s]

EmptyString == Str(<< >>)

\* ECMAScript ToBoolean on a `string | undefined`: undefined and "" are falsy.
Truthy(v) == v.defined /\ Len(v.str) > 0

DEFAULT_MAX_RESULTS == 1000

DEFAULT_QUERY_RESULT_TYPE == "DATA_ROWS"

CustomMaxResults == 100

QueryExecutionIds == {"exec-1", "exec-2"}

\* The single column of the modelled result sets, named as in the tests.
ColName == <<0>>

\* The cell of the j-th data row of page k of a query's results.
Cell(k, j) == <<k, j>>

\* Wire rows ({Data: [{VarCharValue}]}) are the sequences of their cells.
HeaderRow == <<ColName>>

DataRows(k, n) == [j \in 1..n |-> <<Cell(k, j)>>]

\* The service's cursor: the token that asks for page k, and the page a
\* request's NextToken asks for (the first one when it carries none).
TokenOf(k) == Str(<<k>>)

PageNo(nextToken) == IF Truthy(nextToken) THEN nextToken.str[1] ELSE 1

(***************************************************************************)
(* Row parsers a caller may supply to the *With operations.  "toItem" is   *)
(* the tests' (row) => ({ id: String(row.id ?? '') }) on the one column;   *)
(* "throwing" raises on the second data row of any page.                   *)
(***************************************************************************)
RowParsers == {"toItem", "throwing"}

ParsedRow(wire) == [x |-> wire[1]]

RowParserThrows(rp, row) == rp = "throwing" /\ Len(row.x) = 2 /\ row.x[2] = 2

ApplyRowParser(rp, row) == [id |-> row.x]

(***************************************************************************)
(* AthenaQueryResultParser (package athena-query-result-parser): skips the *)
(* header row, recognised by its cells being the column names, once per    *)
(* instance.                                                               *)
(***************************************************************************)
NewParser == [headerSeen |-> FALSE]

IsHeaderRow(wire) == wire = HeaderRow

SkipsHeader(p, rs) == ~p.headerSeen /\ Len(rs) > 0 /\ IsHeaderRow(rs[1])

DataPart(p, rs) == IF SkipsHeader(p, rs) THEN Tail(rs) ELSE rs

parseResultSet(p, rs) ==
    [rows |-> [i \in 1..Len(DataPart(p, rs)) |-> ParsedRow(DataPart(p, rs)[i])],
     threw |-> FALSE]

parseResultSetWith(p, rs, rp) ==
    LET raw == parseResultSet(p, rs).rows
    IN  IF \E i \in 1..Len(raw) : RowParserThrows(rp, raw[i])
        THEN [rows |-> << >>, threw |-> TRUE]
        ELSE [rows |-> [i \in 1..Len(raw) |-> ApplyRowParser(rp, raw[i])],
              threw |-> FALSE]

ParserAfterParse(p) == [p EXCEPT !.headerSeen = TRUE]

(***************************************************************************)
(* PageResult<T> and the property read `pageResult.nextToken`: a key that  *)
(* is missing from the object reads as undefined.                          *)
(***************************************************************************)
NextTokenOf(pageResult) ==
    IF "nextToken" \in DOMAIN pageResult THEN pageResult.nextToken ELSE Undefined

\* hasNextPage by truthiness, `!!pageResult.nextToken`.
hasNextPage_truthy(pageResult) == Truthy(NextTokenOf(pageResult))

\* static hasNextPage: `pageResult.nextToken !== undefined`.
hasNextPage(pageResult) == NextTokenOf(pageResult) # Undefined

\* A page whose rowCount leaves out one row, `rows.length - 1`.
MakePage_offByOne(rows, responseNextToken) ==
    [rows |-> rows, nextToken |-> responseNextToken, rowCount |-> Len(rows) - 1]

\* The object literal both fetch operations return.
MakePage(rows, responseNextToken) ==
    [rows |-> rows, nextToken |-> responseNextToken, rowCount |-> Len(rows)]

\* BuildInput with the token normalised, `NextToken: nextToken || undefined`.
BuildInput_dropsEmpty(queryExecutionId, nextToken) ==
    [QueryExecutionId |-> queryExecutionId,
     NextToken |-> IF Truthy(nextToken) THEN nextToken ELSE Undefined,
     MaxResults |-> options.maxResults]

\* GetQueryResultsCommandInput as fetchPage and fetchPageWith build it.
BuildInput(queryExecutionId, nextToken) ==
    [QueryExecutionId |-> queryExecutionId,
     NextToken |-> nextToken,
     MaxResults |-> options.maxResults]

\* The loop test of a generator that never stops.
LoopContinues_always(nextToken) == TRUE

\* The generators' loop test, `while (nextToken)`.
LoopContinues(nextToken) == Truthy(nextToken)

\* A constructor that ignores its `options` argument.
MakeOptions_ignoresGiven(given) ==
    [maxResults |-> DEFAULT_MAX_RESULTS, queryResultType |-> DEFAULT_QUERY_RESULT_TYPE]

\* The constructor's defaulting of PagerOptions (`??`).
MakeOptions(given) ==
    [maxResults |-> IF "maxResults" \in DOMAIN given
                    THEN given.maxResults ELSE DEFAULT_MAX_RESULTS,
     queryResultType |-> IF "queryResultType" \in DOMAIN given
                         THEN given.queryResultType ELSE DEFAULT_QUERY_RESULT_TYPE]

\* PagerOptions a caller may pass: the tests' two constructions.
GivenOptions ==
    {[queryResultType |-> "DATA_ROWS"],
     [maxResults |-> CustomMaxResults, queryResultType |-> "DATA_ROWS"]}

(***************************************************************************)
(* Operations in progress.  ops[o] is one invocation: a fetchPage or       *)
(* fetchPageWith promise, or a generator object and its consumer.          *)
(***************************************************************************)
FetchKinds == {"fetchPage", "fetchPageWith"}

PageGeneratorKinds == {"iteratePages", "iteratePagesWith"}

GeneratorKinds == PageGeneratorKinds \cup {"iterateRows"}

\* The caller's own loop over fetchPage and hasNextPage (README, "Fetch a
\* single page"): `page = await fetchPage(id); while (hasNextPage(page))
\* page = await fetchPage(id, page.nextToken)`.
ManualKinds == {"manualLoop"}

RawKinds == {"fetchPage", "iteratePages"} \cup ManualKinds

IdleOp ==
    [kind |-> "none", pc |-> "idle", queryExecutionId |-> "", rowParser |-> "none",
     nextToken |-> Undefined, pages |-> << >>, rowIdx |-> 0, out |-> << >>,
     pulls |-> 0, error |-> "none", afterReset |-> FALSE]

NewOp(kind, queryExecutionId, rowParser, nextToken, pc) ==
    [IdleOp EXCEPT !.kind = kind, !.pc = pc, !.queryExecutionId = queryExecutionId,
                   !.rowParser = rowParser, !.nextToken = nextToken]

\* One client.send(new GetQueryResultsCommand(input)) and, later, its outcome.
NewCall(o, input) ==
    [op |-> o, input |-> input, status |-> "pending", ResultSet |-> << >>,
     NextToken |-> Undefined]

CallsOf(o) == SelectSeq(calls, LAMBDA c : c.op = o)

CanSend(o) == Len(CallsOf(o)) < MaxRequests

\* Tokens a caller can pass: none, the empty string, or one of the service's.
TokenArgs == {Undefined, EmptyString} \cup {TokenOf(k) : k \in 2..MaxRequests}

Init ==
    /\ ctorOptions \in GivenOptions
    /\ options = MakeOptions(ctorOptions)
    /\ parser = NewParser
    /\ lastReset = "never"
    /\ epochParses = 0
    /\ calls = << >>
    /\ ops = [o \in Ops |-> IdleOp]
    /\ lastHasNext = << >>

CanStart(o) == ops[o].pc = "idle"

\* A fetchPage that starts by making itself a parser,
\* `this.parser = new AthenaQueryResultParser()`.
CallFetchPage_newParser(o, queryExecutionId, nextToken) ==
    /\ CanStart(o)
    /\ ops' = [ops EXCEPT ![o] = NewOp("fetchPage", queryExecutionId, "none", nextToken, "awaiting")]
    /\ calls' = Append(calls, NewCall(o, BuildInput(queryExecutionId, nextToken)))
    /\ parser' = NewParser
    /\ UNCHANGED <<ctorOptions, options, lastReset, epochParses, lastHasNext>>

\* fetchPage(queryExecutionId, nextToken): runs up to `await this.client.send`.
CallFetchPage(o, queryExecutionId, nextToken) ==
    /\ CanStart(o)
    /\ ops' = [ops EXCEPT ![o] = NewOp("fetchPage", queryExecutionId, "none", nextToken, "awaiting")]
    /\ calls' = Append(calls, NewCall(o, BuildInput(queryExecutionId, nextToken)))
    /\ UNCHANGED <<ctorOptions, options, parser, lastReset, epochParses, lastHasNext>>

\* fetchPageWith(queryExecutionId, rowParser, nextToken): likewise.
CallFetchPageWith(o, queryExecutionId, rowParser, nextToken) ==
    /\ CanStart(o)
    /\ ops' = [ops EXCEPT ![o] = NewOp("fetchPageWith", queryExecutionId, rowParser, nextToken, "awaiting")]
    /\ calls' = Append(calls, NewCall(o, BuildInput(queryExecutionId, nextToken)))
    /\ UNCHANGED <<ctorOptions, options, parser, lastReset, epochParses, lastHasNext>>

\* Calling a generator function only creates the generator object.
CallIteratePages(o, queryExecutionId) ==
    /\ CanStart(o)
    /\ ops' = [ops EXCEPT ![o] = NewOp("iteratePages", queryExecutionId, "none", Undefined, "created")]
    /\ UNCHANGED <<ctorOptions, options, parser, lastReset, epochParses, calls, lastHasNext>>

CallIteratePagesWith(o, queryExecutionId, rowParser) ==
    /\ CanStart(o)
    /\ ops' = [ops EXCEPT ![o] = NewOp("iteratePagesWith", queryExecutionId, rowParser, Undefined, "created")]
    /\ UNCHANGED <<ctorOptions, options, parser, lastReset, epochParses, calls, lastHasNext>>

CallIterateRows(o, queryExecutionId, rowParser) ==
    /\ CanStart(o)
    /\ ops' = [ops EXCEPT ![o] = NewOp("iterateRows", queryExecutionId, rowParser, Undefined, "created")]
    /\ UNCHANGED <<ctorOptions, options, parser, lastReset, epochParses, calls, lastHasNext>>

\* The caller's loop starts: `page = await pager.fetchPage(id)`.
CallManualLoop(o, queryExecutionId) ==
    /\ CanStart(o)
    /\ ops' = [ops EXCEPT ![o] = NewOp("manualLoop", queryExecutionId, "none", Undefined, "awaiting")]
    /\ calls' = Append(calls, NewCall(o, BuildInput(queryExecutionId, Undefined)))
    /\ UNCHANGED <<ctorOptions, options, parser, lastReset, epochParses, lastHasNext>>

(***************************************************************************)
(* The generators.  LastPage is the `page` variable of the loop body.      *)
(***************************************************************************)
LastPage(r) == r.pages[Len(r.pages)]

\* AfterYield without `nextToken = page.nextToken`: the loop keeps the token
\* it started the turn with.
AfterYield_staleToken(r) ==
    IF LoopContinues(NextTokenOf(r.pages[Len(r.pages)]))
    THEN [r EXCEPT !.pc = "awaiting"]
    ELSE [r EXCEPT !.pc = "done"]

\* iteratePages / iteratePagesWith resumed after `yield page`:
\* `nextToken = page.nextToken; } while (nextToken);`, then either the next
\* turn's fetch (up to its await) or the end of the generator.
AfterYield(r) ==
    LET token == NextTokenOf(LastPage(r))
    IN  IF LoopContinues(token)
        THEN [r EXCEPT !.nextToken = token, !.pc = "awaiting"]
        ELSE [r EXCEPT !.nextToken = token, !.pc = "done"]

\* RowsFrom with the loop bound off by one: the last row of a page is not
\* yielded.
RowsFrom_dropsLast(r, i) ==
    IF i < Len(LastPage(r).rows)
    THEN [r EXCEPT !.rowIdx = i, !.out = Append(@, LastPage(r).rows[i]), !.pc = "yielded"]
    ELSE AfterYield([r EXCEPT !.rowIdx = i])

\* iterateRows with a page in hand: `for (const row of page.rows) yield row`,
\* started at row i; past the last row the for-await pulls the page generator.
RowsFrom(r, i) ==
    IF i <= Len(LastPage(r).rows)
    THEN [r EXCEPT !.rowIdx = i, !.out = Append(@, LastPage(r).rows[i]), !.pc = "yielded"]
    ELSE AfterYield([r EXCEPT !.rowIdx = i])

\* Resume for a `while (nextToken) { ... }` loop: the test runs before the
\* first fetch.
Resume_testsFirst(r) ==
    IF r.pc = "created"
    THEN [r EXCEPT !.pc = IF Truthy(r.nextToken) THEN "awaiting" ELSE "done"]
    ELSE [r EXCEPT !.pc = "done"]

\* The generator's code from the consumer's next() to its next await or yield.
Resume(r) ==
    IF r.pc = "created"
    THEN [r EXCEPT !.pc = "awaiting"]
    ELSE IF r.kind = "iterateRows"
         THEN RowsFrom(r, r.rowIdx + 1)
         ELSE AfterYield(r)

\* The calls log after the step that took op o to record r: a step that ends
\* at `await this.client.send` has sent one command.
CallsAfter(o, r, log) ==
    IF r.pc = "awaiting"
    THEN Append(log, NewCall(o, BuildInput(r.queryExecutionId, r.nextToken)))
    ELSE log

\* The consumer calls next() on a generator that is not running.
GenNext(o) ==
    LET r == Resume([ops[o] EXCEPT !.pulls = @ + 1])
    IN  /\ ops[o].kind \in GeneratorKinds
        /\ ops[o].pc \in {"created", "yielded"}
        /\ r.pc = "awaiting" => CanSend(o)
        /\ ops' = [ops EXCEPT ![o] = r]
        /\ calls' = CallsAfter(o, r, calls)
        /\ UNCHANGED <<ctorOptions, options, parser, lastReset, epochParses, lastHasNext>>

\* GenReturn of a generator that, told to return, first runs on to its next
\* await or yield.
GenReturn_resumes(o) ==
    LET r == Resume(ops[o])
    IN  /\ ops[o].kind \in GeneratorKinds
        /\ ops[o].pc \in {"created", "yielded"}
        /\ r.pc = "awaiting" => CanSend(o)
        /\ ops' = [ops EXCEPT ![o] = [r EXCEPT !.pc = "closed"]]
        /\ calls' = CallsAfter(o, r, calls)
        /\ UNCHANGED <<ctorOptions, options, parser, lastReset, epochParses, lastHasNext>>

\* The consumer abandons the generator (break / return()).
GenReturn(o) ==
    /\ ops[o].kind \in GeneratorKinds
    /\ ops[o].pc \in {"created", "yielded"}
    /\ ops' = [ops EXCEPT ![o].pc = "closed"]
    /\ UNCHANGED <<ctorOptions, options, parser, lastReset, epochParses, calls, lastHasNext>>

(***************************************************************************)
(* The remote service answers call k with the page its NextToken asks for, *)
(* holding up to MaxRows data rows, and with no token, an empty one or the *)
(* token of the following page.  The first page of a query (a call without *)
(* NextToken) may start with the header row.                               *)
(***************************************************************************)
ServiceRows(input, header, n) ==
    (IF header THEN <<HeaderRow>> ELSE << >>) \o DataRows(PageNo(input.NextToken), n)

ServiceTokens(input) == {Undefined, EmptyString, TokenOf(PageNo(input.NextToken) + 1)}

\* Parse on a parser of the fetch's own, `new AthenaQueryResultParser()`
\* instead of `this.parser`.
Parse_ownParser(r, rs) ==
    IF r.kind \in RawKinds
    THEN parseResultSet(NewParser, rs)
    ELSE parseResultSetWith(NewParser, rs, r.rowParser)

\* `this.parser.parseResultSet(...)` or `parseResultSetWith(..., rowParser)`.
Parse(r, rs) ==
    IF r.kind \in RawKinds
    THEN parseResultSet(parser, rs)
    ELSE parseResultSetWith(parser, rs, r.rowParser)

\* AfterResponse of generators that fetch the next page as soon as they have
\* one, without waiting for the consumer's next().
AfterResponse_prefetch(r, rs, token) ==
    LET parsed == Parse(r, rs)
        got == [r EXCEPT !.pages = Append(@, MakePage(parsed.rows, token))]
    IN  IF parsed.threw THEN [r EXCEPT !.pc = "failed", !.error = "RowParserError"]
        ELSE IF r.kind \in FetchKinds THEN [got EXCEPT !.pc = "returned"]
        ELSE AfterYield(got)

\* The caller's loop with a page in hand: `while (hasNextPage(page))`, then
\* the next fetchPage (up to its await) or the end of the loop.
ManualLoopStep(r) ==
    IF hasNextPage(LastPage(r))
    THEN [r EXCEPT !.nextToken = NextTokenOf(LastPage(r)), !.pc = "awaiting"]
    ELSE [r EXCEPT !.pc = "done"]

\* AfterResponse of a pager that drops the leading row of an answer itself,
\* `response.ResultSet.Rows.slice(1)`, before parsing.
AfterResponse_dropsFirstRow(r, rs, token) ==
    LET parsed == Parse(r, IF rs = << >> THEN rs ELSE Tail(rs))
        seen == [r EXCEPT !.afterReset = (lastReset # "never" /\ epochParses = 0)]
        got == [seen EXCEPT !.pages = Append(@, MakePage(parsed.rows, token))]
    IN  IF parsed.threw THEN [seen EXCEPT !.pc = "failed", !.error = "RowParserError"]
        ELSE IF r.kind \in FetchKinds THEN [got EXCEPT !.pc = "returned"]
        ELSE IF r.kind \in PageGeneratorKinds THEN [got EXCEPT !.pc = "yielded"]
        ELSE IF r.kind \in ManualKinds THEN ManualLoopStep(got)
        ELSE RowsFrom(got, 1)

\* The operation's code from the resolved await to its return, yield or
\* next await.
AfterResponse(r, rs, token) ==
    LET parsed == Parse(r, rs)
        seen == [r EXCEPT !.afterReset = (lastReset # "never" /\ epochParses = 0)]
        got == [seen EXCEPT !.pages = Append(@, MakePage(parsed.rows, token))]
    IN  IF parsed.threw THEN [seen EXCEPT !.pc = "failed", !.error = "RowParserError"]
        ELSE IF r.kind \in FetchKinds THEN [got EXCEPT !.pc = "returned"]
        ELSE IF r.kind \in PageGeneratorKinds THEN [got EXCEPT !.pc = "yielded"]
        ELSE IF r.kind \in ManualKinds THEN ManualLoopStep(got)
        ELSE RowsFrom(got, 1)

\* `await this.client.send(...)` of call k resolves with the response
\* {ResultSet: rs, NextToken: token} and the operation runs on.
Respond(k, rs, token) ==
    LET o == calls[k].op
        r == AfterResponse(ops[o], rs, token)
        answered == [calls EXCEPT ![k] = [@ EXCEPT !.status = "fulfilled", !.ResultSet = rs,
                                                  !.NextToken = token]]
    IN  /\ calls[k].status = "pending"
        /\ r.pc = "awaiting" => CanSend(o)
        /\ parser' = ParserAfterParse(parser)
        /\ epochParses' = 1
        /\ ops' = [ops EXCEPT ![o] = r]
        /\ calls' = CallsAfter(o, r, answered)
        /\ UNCHANGED <<ctorOptions, options, lastReset, lastHasNext>>

\* The service's answer: the header row only leads a query's first page.
SendResolves(k, header, n, token) ==
    /\ header => calls[k].input.NextToken = Undefined
    /\ Respond(k, ServiceRows(calls[k].input, header, n), token)

\* SendRejects of a fetch that catches the rejection and sends the command
\* again.
SendRejects_retries(k) ==
    /\ calls[k].status = "pending"
    /\ CanSend(calls[k].op)
    /\ calls' = Append([calls EXCEPT ![k].status = "rejected"],
                       NewCall(calls[k].op, calls[k].input))
    /\ UNCHANGED <<ctorOptions, options, parser, lastReset, epochParses, ops, lastHasNext>>

\* SendRejects of a fetch that cleans up on failure,
\* `catch (e) { this.reset(); throw e; }`.
SendRejects_resetsParser(k) ==
    /\ calls[k].status = "pending"
    /\ calls' = [calls EXCEPT ![k].status = "rejected"]
    /\ ops' = [ops EXCEPT ![calls[k].op] = [@ EXCEPT !.pc = "failed", !.error = "ServiceError"]]
    /\ parser' = NewParser
    /\ UNCHANGED <<ctorOptions, options, lastReset, epochParses, lastHasNext>>

\* client.send rejects: the await throws and nothing catches it.
SendRejects(k) ==
    /\ calls[k].status = "pending"
    /\ calls' = [calls EXCEPT ![k].status = "rejected"]
    /\ ops' = [ops EXCEPT ![calls[k].op] = [@ EXCEPT !.pc = "failed", !.error = "ServiceError"]]
    /\ UNCHANGED <<ctorOptions, options, parser, lastReset, epochParses, lastHasNext>>

\* A reset() that leaves the parser in place.
reset_keepsParser(p) == p

\* reset(): `this.parser = new AthenaQueryResultParser()`.
reset(p) == NewParser

Reset ==
    /\ parser' = reset(parser)
    /\ lastReset' = IF epochParses = 0 THEN "unused" ELSE "used"
    /\ epochParses' = 0
    /\ UNCHANGED <<ctorOptions, options, calls, ops, lastHasNext>>

\* The caller is done with a settled operation and its results.
Release(o) ==
    /\ ops[o].pc \in {"returned", "done", "failed", "closed"}
    /\ ops' = [ops EXCEPT ![o] = IdleOp]
    /\ calls' = SelectSeq(calls, LAMBDA c : c.op # o)
    /\ UNCHANGED <<ctorOptions, options, parser, lastReset, epochParses, lastHasNext>>

Next ==
    \/ \E o \in Ops, q \in QueryExecutionIds, t \in TokenArgs : CallFetchPage(o, q, t)
    \/ \E o \in Ops, q \in QueryExecutionIds, rp \in RowParsers, t \in TokenArgs :
          CallFetchPageWith(o, q, rp, t)
    \/ \E o \in Ops, q \in QueryExecutionIds : CallIteratePages(o, q)
    \/ \E o \in Ops, q \in QueryExecutionIds, rp \in RowParsers : CallIteratePagesWith(o, q, rp)
    \/ \E o \in Ops, q \in QueryExecutionIds, rp \in RowParsers : CallIterateRows(o, q, rp)
    \/ \E o \in Ops : GenNext(o)
    \/ \E o \in Ops : GenReturn(o)
    \/ \E k \in 1..Len(calls), header \in BOOLEAN, n \in 0..MaxRows :
          \E token \in ServiceTokens(calls[k].input) : SendResolves(k, header, n, token)
    \/ \E k \in 1..Len(calls) : SendRejects(k)
    \/ Reset
    \/ \E o \in Ops : Release(o)

Spec == Init /\ [][Next]_vars

(***************************************************************************)
(* One page iteration whose consumer keeps calling next() until the        *)
(* generator ends: the for-await loop of the README, never left early.     *)
(***************************************************************************)
IterationNext ==
    \/ \E o \in Ops, q \in QueryExecutionIds : CallIteratePages(o, q)
    \/ \E o \in Ops, q \in QueryExecutionIds, rp \in RowParsers : CallIteratePagesWith(o, q, rp)
    \/ \E o \in Ops : GenNext(o)
    \/ \E k \in 1..Len(calls), header \in BOOLEAN, n \in 0..MaxRows :
          \E token \in ServiceTokens(calls[k].input) : SendResolves(k, header, n, token)
    \/ \E k \in 1..Len(calls) : SendRejects(k)
    \/ Reset

IterationSpec ==
    Init /\ [][IterationNext]_vars /\ \A o \in Ops : WF_vars(GenNext(o))

(***************************************************************************)
(* hasNextPage on its own: a caller applies it to Page Results of every    *)
(* shape, those the pager builds and object literals with the nextToken    *)
(* key left out, on a pager in either parser state.                        *)
(***************************************************************************)
PageRows ==
    {<< >>} \cup
    {[j \in 1..n |-> ParsedRow(DataRows(k, n)[j])] : k \in 1..MaxRequests, n \in 1..MaxRows} \cup
    {[j \in 1..n |-> ApplyRowParser("toItem", ParsedRow(DataRows(k, n)[j]))] :
        k \in 1..MaxRequests, n \in 1..MaxRows}

PageTokens == {Undefined, EmptyString} \cup {TokenOf(k) : k \in 2..(MaxRequests + 1)}

PageResults ==
    {MakePage(rows, token) : rows \in PageRows, token \in PageTokens} \cup
    {[rows |-> rows, rowCount |-> Len(rows)] : rows \in PageRows}

CallHasNextPage(pageResult) ==
    /\ lastHasNext' = <<pageResult, hasNextPage(pageResult)>>
    /\ UNCHANGED <<ctorOptions, options, parser, lastReset, epochParses, calls, ops>>

HasNextPageInit ==
    /\ ctorOptions \in GivenOptions
    /\ options = MakeOptions(ctorOptions)
    /\ parser \in {NewParser, ParserAfterParse(NewParser)}
    /\ lastReset = "never"
    /\ epochParses = IF parser.headerSeen THEN 1 ELSE 0
    /\ calls = << >>
    /\ ops = [o \in Ops |-> IdleOp]
    /\ lastHasNext = << >>

HasNextPageNext == \E pageResult \in PageResults : CallHasNextPage(pageResult)

HasNextPageSpec == HasNextPageInit /\ [][HasNextPageNext]_vars

(***************************************************************************)
(* Two callers share the pager: one fetches pages of query exec-1, the     *)
(* other of query exec-2, each with a fetchPage in flight whenever it      *)
(* likes, so the two calls and their answers interleave in every order.    *)
(***************************************************************************)
Slots == {1, 2}

QueryOf(o) == IF o = 1 THEN "exec-1" ELSE "exec-2"

TwoCallersInit ==
    /\ ctorOptions \in GivenOptions
    /\ options = MakeOptions(ctorOptions)
    /\ parser = NewParser
    /\ lastReset = "never"
    /\ epochParses = 0
    /\ calls = << >>
    /\ ops = [o \in Slots |-> IdleOp]
    /\ lastHasNext = << >>

InterleavedNext ==
    \/ \E o \in Slots, t \in TokenArgs : CallFetchPage(o, QueryOf(o), t)
    \/ \E k \in 1..Len(calls), header \in BOOLEAN, n \in 0..MaxRows :
          \E token \in ServiceTokens(calls[k].input) : SendResolves(k, header, n, token)
    \/ \E k \in 1..Len(calls) : SendRejects(k)
    \/ Reset

InterleavedSpec == TwoCallersInit /\ [][InterleavedNext]_vars

(***************************************************************************)
(* One query read twice on the same pager: a first iteration consumed to   *)
(* its end, then, with or without a reset() in between, a second reading   *)
(* of the same query, by the same generator again or by the caller's own   *)
(* fetchPage / hasNextPage loop.  The query's results do not change: a     *)
(* request the first reading has made is answered as it was then.          *)
(***************************************************************************)
StartFirstRun ==
    \/ CallIteratePages(1, QueryOf(1))
    \/ CallIterateRows(1, QueryOf(1), "toItem")

FirstRunAnswer(k, header, n, token) ==
    /\ calls[k].op = 1
    /\ SendResolves(k, header, n, token)

ResetBetweenRuns ==
    /\ ops[1].pc = "done"
    /\ ops[2].pc = "idle"
    /\ lastReset = "never"
    /\ Reset

StartSecondRun ==
    /\ ops[1].pc = "done"
    /\ \/ ops[1].kind = "iteratePages" /\ CallIteratePages(2, ops[1].queryExecutionId)
       \/ ops[1].kind = "iterateRows" /\ CallIterateRows(2, ops[1].queryExecutionId, ops[1].rowParser)
       \/ ops[1].kind = "iteratePages" /\ CallManualLoop(2, ops[1].queryExecutionId)

\* The first reading's calls that made the request of call k.
SameRequest(k) ==
    {j \in 1..Len(calls) :
        calls[j].op = 1 /\ calls[j].status = "fulfilled" /\ calls[j].input = calls[k].input}

Replay(k) ==
    /\ calls[k].op = 2
    /\ \E j \in SameRequest(k) : Respond(k, calls[j].ResultSet, calls[j].NextToken)

SecondRunAnswer(k, header, n, token) ==
    /\ calls[k].op = 2
    /\ SameRequest(k) = {}
    /\ SendResolves(k, header, n, token)

TwoRunsNext ==
    \/ StartFirstRun
    \/ \E o \in Slots : GenNext(o)
    \/ \E k \in 1..Len(calls), header \in BOOLEAN, n \in 0..MaxRows :
          \E token \in ServiceTokens(calls[k].input) : FirstRunAnswer(k, header, n, token)
    \/ ResetBetweenRuns
    \/ StartSecondRun
    \/ \E k \in 1..Len(calls) : Replay(k)
    \/ \E k \in 1..Len(calls), header \in BOOLEAN, n \in 0..MaxRows :
          \E token \in ServiceTokens(calls[k].input) : SecondRunAnswer(k, header, n, token)

TwoRunsSpec == TwoCallersInit /\ [][TwoRunsNext]_vars

(***************************************************************************)
(* One iteration, consumed to its end, with reset() called at any moment   *)
(* after its first page.  The query's data is arbitrary: any page may start with a data   *)
(* row whose cells are the column names, which on the wire is the header   *)
(* row.                                                                    *)
(***************************************************************************)
\* The iterations of this specification are one page shorter than the bound.
AnyRowsAnswer(k, leading, n, token) ==
    /\ Truthy(token) => Len(CallsOf(calls[k].op)) < MaxRequests - 1
    /\ Respond(k, ServiceRows(calls[k].input, leading, n), token)

\* reset() called once the iteration has had a page and before it ends.
ResetBetweenPages(o) ==
    /\ ops[o].pc \in {"yielded", "awaiting"}
    /\ Len(ops[o].pages) >= 1
    /\ Reset

ResetDuringIterationNext ==
    \/ \E o \in Ops : CallIteratePages(o, QueryOf(o))
    \/ \E o \in Ops : CallIterateRows(o, QueryOf(o), "toItem")
    \/ \E o \in Ops : GenNext(o)
    \/ \E k \in 1..Len(calls), leading \in BOOLEAN, n \in 0..MaxRows :
          \E token \in ServiceTokens(calls[k].input) : AnyRowsAnswer(k, leading, n, token)
    \/ \E o \in Ops : ResetBetweenPages(o)

ResetDuringIterationSpec == Init /\ [][ResetDuringIterationNext]_vars

(***************************************************************************)
(* A fetch that fails and is issued again: on a pager whose parser is new  *)
(* or has parsed before, a fetchPage or fetchPageWith call is rejected by  *)
(* the service, the caller makes the same call once more, and the service  *)
(* answers it.                                                             *)
(***************************************************************************)
RetryInit ==
    /\ ctorOptions \in GivenOptions
    /\ options = MakeOptions(ctorOptions)
    /\ parser \in {NewParser, ParserAfterParse(NewParser)}
    /\ lastReset = "never"
    /\ epochParses = IF parser.headerSeen THEN 1 ELSE 0
    /\ calls = << >>
    /\ ops = [o \in Slots |-> IdleOp]
    /\ lastHasNext = << >>

FirstAttemptFails(k) ==
    /\ calls[k].op = 1
    /\ SendRejects(k)

Reissue ==
    /\ ops[1].pc = "failed"
    /\ \/ /\ ops[1].kind = "fetchPage"
          /\ CallFetchPage(2, ops[1].queryExecutionId, ops[1].nextToken)
       \/ /\ ops[1].kind = "fetchPageWith"
          /\ CallFetchPageWith(2, ops[1].queryExecutionId, ops[1].rowParser, ops[1].nextToken)

ReissueAnswer(k, header, n, token) ==
    /\ calls[k].op = 2
    /\ SendResolves(k, header, n, token)

RetryNext ==
    \/ \E q \in QueryExecutionIds, t \in TokenArgs : CallFetchPage(1, q, t)
    \/ \E q \in QueryExecutionIds, t \in TokenArgs : CallFetchPageWith(1, q, "toItem", t)
    \/ \E k \in 1..Len(calls) : FirstAttemptFails(k)
    \/ Reissue
    \/ \E k \in 1..Len(calls), header \in BOOLEAN, n \in 0..MaxRows :
          \E token \in ServiceTokens(calls[k].input) : ReissueAnswer(k, header, n, token)

RetrySpec == RetryInit /\ [][RetryNext]_vars

(***************************************************************************)
(* Properties.                                                             *)
(***************************************************************************)
\* The cell a produced row was made from (raw ParsedRow or the row parser's item).
RowCell(row) == IF "x" \in DOMAIN row THEN row.x ELSE row.id

\* page is the Page Result of the answer call: its token, and its rows in
\* order, with or without the leading header row.
PageMatches(page, call) ==
    LET skip == Len(call.ResultSet) - Len(page.rows)
    IN  /\ page.nextToken = call.NextToken
        /\ skip \in {0, 1}
        /\ skip = 1 => IsHeaderRow(call.ResultSet[1])
        /\ \A j \in 1..Len(page.rows) : RowCell(page.rows[j]) = call.ResultSet[j + skip][1]

\* C1: a fully consumed iteratePages / iteratePagesWith sequence has issued
\* exactly N requests, the i-th asking for page i, where the N-th answer is
\* the first one that carries no continuation token, and it has yielded
\* exactly the N answered pages in that order.
C1_ExactlyNPages ==
    \A o \in Ops :
        LET r == ops[o]
            cs == CallsOf(o)
            N == Len(cs)
        IN  (r.kind \in PageGeneratorKinds /\ r.pc = "done") =>
                /\ N >= 1
                /\ \A i \in 1..N : /\ cs[i].status = "fulfilled"
                                   /\ PageNo(cs[i].input.NextToken) = i
                /\ \A i \in 1..(N - 1) : cs[i].NextToken # Undefined
                /\ cs[N].NextToken = Undefined
                /\ Len(r.pages) = N
                /\ \A i \in 1..N : PageMatches(r.pages[i], cs[i])

\* C2: in one iteratePages / iteratePagesWith sequence the first request
\* carries no token, every later request carries the token returned with the
\* page yielded just before it, and every request carries the sequence's
\* query execution id.
C2_TokenChain ==
    \A o \in Ops :
        LET r == ops[o]
            cs == CallsOf(o)
        IN  r.kind \in PageGeneratorKinds =>
                \A i \in 1..Len(cs) :
                    /\ cs[i].input.QueryExecutionId = r.queryExecutionId
                    /\ i = 1 => cs[i].input.NextToken = Undefined
                    /\ i > 1 => /\ Len(r.pages) >= i - 1
                                /\ cs[i - 1].status = "fulfilled"
                                /\ cs[i].input.NextToken = cs[i - 1].NextToken
                                /\ cs[i].input.NextToken = r.pages[i - 1].nextToken
                    /\ \A j \in 1..(i - 1) : cs[j].input.NextToken # cs[i].input.NextToken

C2_Witness ==
    \E o \in Ops :
        /\ ops[o].kind = "iteratePagesWith"
        /\ Len(CallsOf(o)) = MaxRequests
        /\ CallsOf(o)[MaxRequests].input.NextToken = TokenOf(MaxRequests)

\* C3: an iteratePages / iteratePagesWith sequence whose first fetch succeeded
\* has yielded a page, a completed one has yielded at least one, and one
\* answered with a single empty page (no rows, no token) completes having
\* yielded exactly the page rows = [], rowCount = 0, no token.
C3_AtLeastOnePage ==
    \A o \in Ops :
        LET r == ops[o]
            cs == CallsOf(o)
        IN  r.kind \in PageGeneratorKinds =>
                /\ r.pc = "done" => Len(r.pages) >= 1
                /\ (Len(cs) >= 1 /\ cs[1].status = "fulfilled" /\ r.error # "RowParserError")
                       => Len(r.pages) >= 1
                /\ (r.pc = "done" /\ Len(cs) = 1 /\ cs[1].ResultSet = << >>
                        /\ cs[1].NextToken = Undefined)
                       => r.pages = <<[rows |-> << >>, nextToken |-> Undefined, rowCount |-> 0]>>

C3_Witness ==
    \E o \in Ops :
        /\ ops[o].kind = "iteratePages"
        /\ ops[o].pc = "done"
        /\ Len(CallsOf(o)) = 1
        /\ CallsOf(o)[1].ResultSet = << >>
        /\ ops[o].pages = <<[rows |-> << >>, nextToken |-> Undefined, rowCount |-> 0]>>

\* The last page the sequence has yielded carries no continuation token.
LastPageIsFinal(o) ==
    /\ ops[o].kind \in PageGeneratorKinds
    /\ ops[o].pc = "yielded"
    /\ NextTokenOf(LastPage(ops[o])) = Undefined

\* C4: a page without continuation token is the last page an iteratePages /
\* iteratePagesWith sequence yields and its request the last one issued; the
\* consumer's next pull after it completes the sequence without a request;
\* and a consumer that keeps pulling sees the sequence complete.
C4_Finite ==
    /\ [](\A o \in Ops :
            ops[o].kind \in PageGeneratorKinds =>
                \A i \in 1..Len(ops[o].pages) :
                    NextTokenOf(ops[o].pages[i]) = Undefined =>
                        /\ i = Len(ops[o].pages)
                        /\ Len(CallsOf(o)) = i
                        /\ ops[o].pc \in {"yielded", "done", "closed"})
    /\ [][\A o \in Ops :
            (LastPageIsFinal(o) /\ ops'[o].pulls > ops[o].pulls) =>
                /\ ops'[o].pc = "done"
                /\ calls' = calls]_vars
    /\ \A o \in Ops : LastPageIsFinal(o) ~> (ops[o].pc = "done")

C4_Witness ==
    \E o \in Ops :
        /\ ops[o].kind = "iteratePages"
        /\ ops[o].pc = "done"
        /\ Len(ops[o].pages) = 2
        /\ NextTokenOf(LastPage(ops[o])) = Undefined
        /\ ops[o].pulls = 3

RECURSIVE ConcatRows(_)
\* The rows of a sequence of pages, page after page.
ConcatRows(pages) ==
    IF pages = << >> THEN << >>
    ELSE ConcatRows(SubSeq(pages, 1, Len(pages) - 1)) \o pages[Len(pages)].rows

Pending(o) == SelectSeq(calls, LAMBDA c : c.op = o /\ c.status = "pending")

\* C5: a generator has a request outstanding only while its consumer waits on
\* a pull, never more than one, and only when every page (for iterateRows,
\* every row of every page) received so far has been yielded: request k+1 is
\* issued after page k was yielded and pulled past.
C5_DemandDriven ==
    \A o \in Ops :
        LET r == ops[o]
            cs == CallsOf(o)
        IN  r.kind \in GeneratorKinds =>
                /\ Len(Pending(o)) <= 1
                /\ Len(Pending(o)) = 1 <=> r.pc = "awaiting"
                /\ Len(cs) <= Len(r.pages) + 1
                /\ Len(cs) = Len(r.pages) + 1 <=> r.pc \in {"awaiting", "failed"}
                /\ (r.kind \in PageGeneratorKinds) =>
                       /\ Len(cs) <= r.pulls
                       /\ r.pc = "awaiting" => r.pulls = Len(r.pages) + 1
                /\ (r.kind = "iterateRows" /\ r.pc \in {"awaiting", "failed"}) =>
                       /\ r.out = ConcatRows(r.pages)
                       /\ r.pc = "awaiting" => r.pulls = Len(r.out) + 1

C5_Witness ==
    \E o \in Ops :
        /\ ops[o].kind = "iterateRows"
        /\ ops[o].pc = "awaiting"
        /\ Len(CallsOf(o)) = 2
        /\ Len(ops[o].out) = MaxRows
        /\ ops[o].pulls = MaxRows + 1

\* C6: a rejected send or a throwing row parser fails the operation with that
\* very error; the rejected request is the operation's last one (no retry, no
\* later fetch); and a failed sequence yields, requests and changes nothing
\* more.
C6_FailurePropagates ==
    /\ [](\A o \in Ops :
            LET r == ops[o]
                cs == CallsOf(o)
            IN  /\ \A i \in 1..Len(cs) :
                       cs[i].status = "rejected" =>
                           /\ i = Len(cs)
                           /\ r.pc = "failed"
                           /\ r.error = "ServiceError"
                /\ r.error # "none" <=> r.pc = "failed"
                /\ r.pc = "failed" =>
                       /\ Len(cs) >= 1
                       /\ Len(Pending(o)) = 0
                       /\ r.error = "ServiceError" <=> cs[Len(cs)].status = "rejected"
                       /\ r.error = "RowParserError" =>
                              /\ cs[Len(cs)].status = "fulfilled"
                              /\ r.kind \notin RawKinds
                              /\ \E j \in 1..Len(cs[Len(cs)].ResultSet) :
                                     RowParserThrows(r.rowParser,
                                                     ParsedRow(cs[Len(cs)].ResultSet[j])))
    /\ [][\A o \in Ops :
            ops[o].pc = "failed" =>
                \/ ops'[o] = ops[o] /\ CallsOf(o)' = CallsOf(o)
                \/ ops'[o] = IdleOp]_vars

C6_Witness ==
    \E o \in Ops :
        /\ ops[o].kind = "iterateRows"
        /\ ops[o].pc = "failed"
        /\ ops[o].error = "ServiceError"
        /\ Len(CallsOf(o)) = 2
        /\ Len(ops[o].out) = 1

\* C7: iterateRows has yielded, in order, the rows of the pages its
\* iteratePagesWith produced from the service's answers: all of them whenever
\* it waits for the next page, has completed or has failed, and the rows up to
\* the one in hand while it is suspended at a row.
C7_RowsAreConcatenation ==
    \A o \in Ops :
        LET r == ops[o]
            cs == CallsOf(o)
            m == Len(r.pages)
        IN  r.kind = "iterateRows" =>
                /\ \A i \in 1..m : PageMatches(r.pages[i], cs[i])
                /\ r.pc \in {"awaiting", "done", "failed"} => r.out = ConcatRows(r.pages)
                /\ r.pc = "yielded" =>
                       /\ r.rowIdx \in 1..Len(LastPage(r).rows)
                       /\ r.out = ConcatRows(SubSeq(r.pages, 1, m - 1))
                                      \o SubSeq(LastPage(r).rows, 1, r.rowIdx)

C7_Witness ==
    \E o \in Ops :
        /\ ops[o].kind = "iterateRows"
        /\ ops[o].pc = "done"
        /\ Len(ops[o].pages) = 3
        /\ Len(ops[o].pages[1].rows) = 2
        /\ Len(ops[o].pages[2].rows) = 0
        /\ Len(ops[o].pages[3].rows) = 1
        /\ Len(ops[o].out) = 3

\* C8: a fetchPage whose answer is the first the parser parses after a
\* reset(), and starts with the header row, returns the rows after the header
\* only: header plus one data row gives exactly that one data row.
C8_ResetThenHeaderSkipped ==
    \A o \in Ops :
        LET r == ops[o]
            rs == CallsOf(o)[1].ResultSet
        IN  (r.kind = "fetchPage" /\ r.pc = "returned" /\ r.afterReset
                /\ Len(rs) >= 1 /\ IsHeaderRow(rs[1])) =>
                /\ r.pages[1].rows = [j \in 1..(Len(rs) - 1) |-> ParsedRow(rs[j + 1])]
                /\ Len(rs) = 2 => r.pages[1].rowCount = 1

C8_Witness ==
    \E o \in Ops :
        /\ ops[o].kind = "fetchPage"
        /\ ops[o].pc = "returned"
        /\ ops[o].afterReset
        /\ lastReset = "used"
        /\ ops[o].queryExecutionId = "exec-2"
        /\ CallsOf(o)[1].ResultSet = <<HeaderRow, <<Cell(1, 1)>>>>
        /\ ops[o].pages[1].rows = <<ParsedRow(<<Cell(1, 1)>>)>>

\* C9: every Page Result a fetch or an iteration has produced has
\* rowCount = Len(rows).
C9_RowCount ==
    \A o \in Ops :
        \A i \in 1..Len(ops[o].pages) :
            ops[o].pages[i].rowCount = Len(ops[o].pages[i].rows)

C9_Witness ==
    \E o \in Ops :
        /\ ops[o].kind = "fetchPageWith"
        /\ ops[o].pc = "returned"
        /\ Len(CallsOf(o)[1].ResultSet) = MaxRows + 1
        /\ ops[o].pages[1].rowCount = MaxRows

\* C10: hasNextPage(p) is true exactly when p has a nextToken key holding a
\* string (not a missing key, not undefined), whatever p's rows are, and
\* calling it changes nothing of the pager.
C10_HasNextPage ==
    /\ [](lastHasNext # << >> =>
            lastHasNext[2] = (/\ "nextToken" \in DOMAIN lastHasNext[1]
                              /\ lastHasNext[1].nextToken.defined))
    /\ [][lastHasNext' # lastHasNext =>
            UNCHANGED <<ctorOptions, options, parser, lastReset, epochParses, calls, ops>>]_vars

C10_Witness ==
    /\ lastHasNext # << >>
    /\ lastHasNext[1].rows = << >>
    /\ lastHasNext[1].rowCount = 0
    /\ "nextToken" \in DOMAIN lastHasNext[1]
    /\ lastHasNext[2] = TRUE

\* C11: a fetchPage or fetchPageWith call has issued exactly one request, at
\* every moment from the call to its outcome, and that request carries the
\* query execution id and the token the caller passed (undefined when none),
\* the empty string included, unmodified.
C11_OneRequestAsPassed ==
    \A o \in Ops :
        LET r == ops[o]
            cs == CallsOf(o)
        IN  r.kind \in FetchKinds =>
                /\ Len(cs) = 1
                /\ cs[1].input.QueryExecutionId = r.queryExecutionId
                /\ cs[1].input.NextToken = r.nextToken

C11_Witness ==
    \E o \in Ops :
        /\ ops[o].kind = "fetchPageWith"
        /\ ops[o].pc = "returned"
        /\ ops[o].queryExecutionId = "exec-2"
        /\ ops[o].nextToken = EmptyString
        /\ CallsOf(o)[1].input.NextToken = EmptyString

\* The maxResults the constructor was given, or the default.
ConfiguredMaxResults ==
    IF "maxResults" \in DOMAIN ctorOptions THEN ctorOptions.maxResults ELSE 1000

\* C12: every request, of any operation, before and after any reset(), has
\* MaxResults equal to the constructor's maxResults (1000 when none was
\* given) and exactly the fields QueryExecutionId, NextToken and MaxResults
\* (no result-format field); this.options never changes.
C12_ConfigurationFixed ==
    /\ [](\A k \in 1..Len(calls) :
            /\ calls[k].input.MaxResults = ConfiguredMaxResults
            /\ DOMAIN calls[k].input = {"QueryExecutionId", "NextToken", "MaxResults"})
    /\ [](options.maxResults = ConfiguredMaxResults)
    /\ [][options' = options /\ ctorOptions' = ctorOptions]_vars

C12_Witness ==
    /\ "maxResults" \notin DOMAIN ctorOptions
    /\ lastReset = "used"
    /\ epochParses = 1
    /\ Len(calls) = 2
    /\ ops[calls[2].op].kind = "iterateRows"
    /\ calls[2].input.MaxResults = 1000

\* C13: a generator suspended at a yield (page k, or a row of page k) or
\* abandoned by its consumer has issued exactly k requests, all answered, and
\* as long as the consumer does not pull again it issues no other.
C13_NoFetchWithoutPull ==
    /\ [](\A o \in Ops :
            (ops[o].kind \in GeneratorKinds /\ ops[o].pc \in {"yielded", "closed"}) =>
                /\ Len(CallsOf(o)) = Len(ops[o].pages)
                /\ Len(Pending(o)) = 0)
    /\ [][\A o \in Ops :
            (/\ ops[o].kind \in GeneratorKinds
             /\ ops[o].pc \in {"yielded", "closed"}
             /\ ops'[o].pulls = ops[o].pulls) =>
                /\ CallsOf(o)' = CallsOf(o)
                /\ ops'[o].pages = ops[o].pages]_vars

C13_Witness ==
    \E o \in Ops :
        /\ ops[o].kind = "iterateRows"
        /\ ops[o].pc = "closed"
        /\ Len(ops[o].pages) = 1
        /\ Len(ops[o].out) = 1
        /\ Len(LastPage(ops[o]).rows) = 2
        /\ Truthy(NextTokenOf(LastPage(ops[o])))
        /\ Len(CallsOf(o)) = 1

\* Call k is answered in this step.
Answered(k) ==
    /\ Len(calls') >= k
    /\ calls[k].status = "pending"
    /\ calls'[k].status = "fulfilled"

\* C14: the parser's header-seen flag is set exactly while the parser has
\* parsed an answer in the current epoch; it goes from clear to set only in
\* the step that parses the epoch's first answer and from set to clear only
\* by reset(); and a page parsed while the flag is set has every row of
\* its answer (no row skipped as a header), so at most one row is skipped per
\* epoch, a header row leading the epoch's first answer.
C14_HeaderFlagOncePerEpoch ==
    /\ [](parser.headerSeen <=> epochParses = 1)
    /\ [][(~parser.headerSeen /\ parser'.headerSeen) =>
               \E j \in 1..Len(calls) : Answered(j)]_vars
    /\ [][(parser.headerSeen /\ ~parser'.headerSeen) =>
               (parser' = NewParser /\ calls' = calls /\ ops' = ops)]_vars
    /\ [][\A k \in 1..Len(calls) :
              Answered(k) =>
                  LET o == calls[k].op
                      rs == calls'[k].ResultSet
                      n == Len(ops'[o].pages)
                      skipped == Len(rs) - Len(ops'[o].pages[n].rows)
                  IN  /\ parser'.headerSeen
                      /\ n = Len(ops[o].pages) + 1 =>
                             /\ skipped \in {0, 1}
                             /\ skipped = 1 <=>
                                    (~parser.headerSeen /\ Len(rs) > 0 /\ IsHeaderRow(rs[1]))]_vars

C14_Witness ==
    \E o \in Ops :
        /\ ops[o].kind = "iteratePages"
        /\ lastReset = "never"
        /\ parser.headerSeen
        /\ Len(ops[o].pages) = 3
        /\ Len(CallsOf(o)[1].ResultSet) = MaxRows + 1
        /\ \A i \in 1..3 : Len(ops[o].pages[i].rows) = MaxRows

\* C15: when fetchPage calls for two queries share the pager with no reset()
\* between their answers, the answer parsed second, if it starts with its
\* query's header row, comes back with that header row as its first data
\* row; so of two first pages fetched without any reset(), both led by the
\* header, exactly one has lost the header and the other returns it as data.
C15_HeaderLeaksAsData ==
    /\ [][\A k \in 1..Len(calls) :
              LET o == calls[k].op
                  rs == calls'[k].ResultSet
              IN  (/\ Answered(k)
                   /\ ops[o].kind = "fetchPage"
                   /\ epochParses = 1
                   /\ Len(rs) > 0
                   /\ IsHeaderRow(rs[1])) =>
                      /\ ops'[o].pc = "returned"
                      /\ ops'[o].pages[1].rowCount = Len(rs)
                      /\ ops'[o].pages[1].rows[1] = ParsedRow(HeaderRow)]_vars
    /\ []((/\ lastReset = "never"
           /\ \A o \in Slots :
                  /\ ops[o].pc = "returned"
                  /\ Len(CallsOf(o)[1].ResultSet) > 0
                  /\ IsHeaderRow(CallsOf(o)[1].ResultSet[1])) =>
              \E o \in Slots :
                  /\ ops[o].pages[1].rowCount = Len(CallsOf(o)[1].ResultSet)
                  /\ ops[o].pages[1].rows[1] = ParsedRow(HeaderRow)
                  /\ \A other \in Slots \ {o} :
                         ops[other].pages[1].rowCount = Len(CallsOf(other)[1].ResultSet) - 1)

C15_Witness ==
    /\ lastReset = "never"
    /\ ops[1].pc = "returned"
    /\ ops[1].queryExecutionId = "exec-1"
    /\ ops[1].pages[1].rows = <<ParsedRow(<<Cell(1, 1)>>)>>
    /\ ops[2].pc = "returned"
    /\ ops[2].queryExecutionId = "exec-2"
    /\ CallsOf(2)[1].ResultSet = <<HeaderRow, <<Cell(1, 1)>>>>
    /\ ops[2].pages[1].rows = <<ParsedRow(HeaderRow), ParsedRow(<<Cell(1, 1)>>)>>

\* The second reading was given the first reading's answers.
SameResponses ==
    \A i \in 1..Len(CallsOf(2)) :
        /\ i <= Len(CallsOf(1))
        /\ CallsOf(2)[i].status = "fulfilled" =>
               /\ CallsOf(2)[i].ResultSet = CallsOf(1)[i].ResultSet
               /\ CallsOf(2)[i].NextToken = CallsOf(1)[i].NextToken

\* C16: the caller's loop `page = fetchPage(id); while hasNextPage(page)
\* page = fetchPage(id, page.nextToken)`, run on a reset pager after a fully
\* consumed iteratePages(id) of the same query, issues only requests that
\* iteration issued, in the same order, and ends having issued the same
\* requests and obtained the same pages, whatever tokens the service returned.
C16_ManualLoopAgrees ==
    (/\ ops[1].kind = "iteratePages"
     /\ ops[1].pc = "done"
     /\ ops[2].kind = "manualLoop"
     /\ lastReset = "used") =>
        /\ Len(CallsOf(2)) <= Len(CallsOf(1))
        /\ \A i \in 1..Len(CallsOf(2)) : CallsOf(2)[i].input = CallsOf(1)[i].input
        /\ ops[2].pc = "done" =>
               /\ Len(CallsOf(2)) = Len(CallsOf(1))
               /\ ops[2].pages = ops[1].pages

\* C17: iteratePages (or iterateRows) run to completion twice for the same
\* query on one pager, with no reset() in between and the same responses
\* both times, yields the same pages and the same rows both times.
C17_Repeatable ==
    (/\ ops[1].pc = "done"
     /\ ops[2].pc = "done"
     /\ ops[2].kind = ops[1].kind
     /\ lastReset = "never"
     /\ SameResponses) =>
        /\ ops[2].pages = ops[1].pages
        /\ ops[2].out = ops[1].out

\* page has every row of the answer call, in order.
KeepsEveryRow(page, call) ==
    /\ Len(page.rows) = Len(call.ResultSet)
    /\ \A j \in 1..Len(page.rows) : RowCell(page.rows[j]) = call.ResultSet[j][1]

\* The latest page of iteration o is a page k+1 (k >= 1) whose answer was the
\* first the parser parsed after a reset().
ResetBeforeLatestPage(o) ==
    /\ ops[o].kind \in GeneratorKinds
    /\ Len(ops[o].pages) >= 2
    /\ ops[o].afterReset

\* C18 as claimed: page k+1 of an iteration, fetched after a reset() that came
\* between page k and page k+1, has every row of the service's answer.
C18_ResetKeepsRows ==
    \A o \in Ops :
        ResetBeforeLatestPage(o) =>
            KeepsEveryRow(LastPage(ops[o]), CallsOf(o)[Len(ops[o].pages)])

\* C18 as amended: such a page has every row of the service's answer unless
\* the answer's first row has the column names as its cells; then exactly
\* that row is missing and every other row is there, in order.
C18_ResetKeepsRowsUnlessLookalike ==
    \A o \in Ops :
        ResetBeforeLatestPage(o) =>
            LET page == LastPage(ops[o])
                call == CallsOf(o)[Len(ops[o].pages)]
                rs == call.ResultSet
            IN  IF Len(rs) > 0 /\ IsHeaderRow(rs[1])
                THEN /\ Len(page.rows) = Len(rs) - 1
                     /\ \A j \in 1..Len(page.rows) : RowCell(page.rows[j]) = rs[j + 1][1]
                ELSE KeepsEveryRow(page, call)

C18_Witness ==
    \E o \in Ops :
        /\ ops[o].kind = "iterateRows"
        /\ ops[o].pc = "done"
        /\ lastReset = "used"
        /\ ResetBeforeLatestPage(o)
        /\ Len(ops[o].pages) = 2
        /\ CallsOf(o)[1].ResultSet = <<HeaderRow, <<Cell(1, 1)>>>>
        /\ CallsOf(o)[2].ResultSet = DataRows(2, MaxRows)
        /\ Len(ops[o].out) = 1 + MaxRows

\* Call k fails in this step.
Rejected(k) ==
    /\ Len(calls') >= k
    /\ calls[k].status = "pending"
    /\ calls'[k].status = "rejected"

\* The Page Result a fetch of operation r returns for the response
\* {ResultSet: rs, NextToken: token} on a pager whose parser is p.
PageOn(p, r, rs, token) ==
    MakePage(IF r.kind = "fetchPage" THEN parseResultSet(p, rs).rows
             ELSE parseResultSetWith(p, rs, r.rowParser).rows,
             token)

\* C19: neither issuing a fetch nor the step in which its service call fails
\* changes anything of the pager (parser and its header-seen flag, options),
\* and the failure parses nothing and produces no page; from the
\* failure until the same call, issued again, is answered, the parser stays
\* as it was before the failed call; and the Page Result of the second call is
\* the one its response gives on that parser, which is what the call would
\* have returned had the failed call never been made.
C19_FailureLeavesStateUnchanged ==
    /\ [][\A o \in Slots :
              (ops[o].pc = "idle" /\ ops'[o].pc = "awaiting") =>
                  /\ parser' = parser
                  /\ epochParses' = epochParses
                  /\ options' = options]_vars
    /\ [][\A k \in 1..Len(calls) :
              Rejected(k) =>
                  /\ parser' = parser
                  /\ epochParses' = epochParses
                  /\ options' = options
                  /\ ctorOptions' = ctorOptions
                  /\ lastReset' = lastReset
                  /\ ops'[calls[k].op].pages = ops[calls[k].op].pages]_vars
    /\ [][(ops[1].pc = "failed" /\ ops'[2].pc # "returned") => parser' = parser]_vars
    /\ [][\A k \in 1..Len(calls) :
              (Answered(k) /\ ops[1].pc = "failed") =>
                  /\ calls[k].input = CallsOf(1)[1].input
                  /\ ops'[2].pc = "returned"
                  /\ ops'[2].pages =
                         <<PageOn(parser, ops[2], calls'[k].ResultSet, calls'[k].NextToken)>>]_vars

C19_Witness ==
    /\ ops[1].kind = "fetchPage"
    /\ ops[1].pc = "failed"
    /\ ops[1].error = "ServiceError"
    /\ ops[2].kind = "fetchPage"
    /\ ops[2].pc = "returned"
    /\ CallsOf(2)[1].input = CallsOf(1)[1].input
    /\ CallsOf(2)[1].ResultSet = <<HeaderRow, <<Cell(1, 1)>>>>
    /\ ops[2].pages[1].rows = <<ParsedRow(<<Cell(1, 1)>>)>>

====
